---- MODULE Spec2Model ----
(***************************************************************************)
(* The ingredient-vocabulary pipeline of scripts/:                         *)
(*   build-synonym-clusters.py        (Cluster Builder)                    *)
(*   merge-clusters-to-ontology.py    (Vocabulary Merger)                  *)
(*   expand-ontology-from-clusters.py (Ontology Expander)                  *)
(*                                                                         *)
(* A Python str is a sequence of one-character strings, so that lower(),   *)
(* strip(), split() and the re.sub calls are computed character by         *)
(* character.  An optional JSON key is a sequence of length 0 (absent) or  *)
(* 1 (present).                                                            *)
(***************************************************************************)
EXTENDS Integers, Sequences, FiniteSets, TLC

VARIABLES
    pc,                 \* position of the running script
    text,               \* slugify: the argument
    merger_slug,        \* slugify(text) of merge-clusters-to-ontology.py
    expander_slug,      \* slugify(text) of expand-ontology-from-clusters.py
    ontology,           \* the loaded ontology: a list of entries, mutated in place
    ontology_file,      \* merger: ingredient-ontology.json, the existing ontology
    slug_to_entry,      \* merger: slug -> position in `ontology` of the entry object
    surface_to_slug,    \* merger: lowercased surface form -> slug
    synonym_table,      \* merger: SYNONYM_TABLE, a list of <<key, token groups>>
    clusters,           \* merger: the clusters of synonym-clusters.json
    ci,                 \* merger: position of the loop over `clusters`
    matched_slug,       \* merger: matched_slug of the last iteration (<<>> is None)
    stats,              \* merger: the change counters
    unmatched_clusters, \* merger: the unmatched output
    ontology_v2,        \* ingredient-ontology-v2.json, as written
    run,                \* 1 in the first run, 2 in the run on its output
    unmatched_file,     \* expander: the clusters of unmatched-clusters.json
    fdc_candidates,     \* expander: the oracle, a list of <<key, candidate>>
    min_count,          \* expander: --min-count
    dry_run,            \* expander: --dry-run
    existing_slugs,     \* expander: the slugs of the loaded ontology
    existing_surfaces,  \* expander: the lowercased surface forms of the loaded ontology
    new_entries,        \* expander: the entries created by this run
    skipped_existing,   \* expander: counter
    skipped_no_fdc,     \* expander: counter
    ingredients,        \* make_cluster_key: the two raw ingredient strings
    cluster_keys,       \* make_cluster_key: their keys
    freq,               \* builder: the frequency table, a list of [name, count]
    min_freq,           \* builder: --min-freq
    fi,                 \* builder: position of the loop over freq.items()
    build_clusters,     \* builder: `clusters`, a list of [key, members]
    filtered_low,       \* builder: counter
    kept,               \* builder: counter
    gi,                 \* builder: position of the loop over clusters.items()
    output_clusters,    \* builder: the clusters to write
    synonym_clusters,   \* synonym-clusters.json, as written
    first_clusters      \* `clusters` of the first of two builder runs

slug_vars == <<text, merger_slug, expander_slug>>

merge_vars == <<ontology, ontology_file, slug_to_entry, surface_to_slug,
                synonym_table, clusters, ci, matched_slug, stats,
                unmatched_clusters, ontology_v2, run>>

expand_vars == <<unmatched_file, fdc_candidates, min_count, dry_run,
                 existing_slugs, existing_surfaces, new_entries,
                 skipped_existing, skipped_no_fdc>>

build_vars == <<ingredients, cluster_keys, freq, min_freq, fi, build_clusters,
                filtered_low, kept, gi, output_clusters, synonym_clusters,
                first_clusters>>

vars == <<pc, slug_vars, merge_vars, expand_vars, build_vars>>

(***************************************************************************)
(* Characters and the str methods the scripts use                          *)
(***************************************************************************)
LowerLetters ==
    {"a","b","c","d","e","f","g","h","i","j","k","l","m",
     "n","o","p","q","r","s","t","u","v","w","x","y","z"}

Digits == {"0","1","2","3","4","5","6","7","8","9"}

\* the characters \s matches, among those the model draws
Whitespace == {" "}

UpperCase ==
    <<"A","B","C","D","E","F","G","H","I","J","K","L","M",
      "N","O","P","Q","R","S","T","U","V","W","X","Y","Z">>

LowerCase ==
    <<"a","b","c","d","e","f","g","h","i","j","k","l","m",
      "n","o","p","q","r","s","t","u","v","w","x","y","z">>

UpperToLower == [c \in {UpperCase[i] : i \in 1..26} |->
                    LowerCase[CHOOSE i \in 1..26 : UpperCase[i] = c]]

LowerChar(c) == IF c \in DOMAIN UpperToLower THEN UpperToLower[c] ELSE c

\* str.lower()
Lower(s) == [i \in 1..Len(s) |-> LowerChar(s[i])]

\* str.strip(chars): drop the leading and trailing characters of `chars`
Strip(s, chars) ==
    LET keep == {i \in 1..Len(s) : s[i] \notin chars}
    IN  IF keep = {} THEN <<>>
        ELSE LET lo == CHOOSE i \in keep : \A j \in keep : i <= j
                 hi == CHOOSE i \in keep : \A j \in keep : j <= i
             IN  SubSeq(s, lo, hi)

\* re.sub(r"[^...]", "", s): delete every character outside `allowed`
DeleteOutside(s, allowed) == SelectSeq(s, LAMBDA c : c \in allowed)

\* re.sub(r"[^...]", " ", s): blank every character outside `allowed`
BlankOutside(s, allowed) ==
    [i \in 1..Len(s) |-> IF s[i] \in allowed THEN s[i] ELSE " "]

\* re.sub(r"[chars]+", rep, s): every maximal run of `chars` becomes `rep`
RECURSIVE CollapseRuns(_, _, _)
CollapseRuns(s, chars, rep) ==
    IF s = <<>> THEN <<>>
    ELSE IF Head(s) \notin chars
         THEN <<Head(s)>> \o CollapseRuns(Tail(s), chars, rep)
         ELSE IF Len(s) >= 2 /\ s[2] \in chars
              THEN CollapseRuns(Tail(s), chars, rep)
              ELSE <<rep>> \o CollapseRuns(Tail(s), chars, rep)

\* str.split(): the maximal runs of non-whitespace characters
RECURSIVE Split(_)
Split(s) ==
    LET t == Strip(s, Whitespace)
        ws == {i \in 1..Len(t) : t[i] \in Whitespace}
    IN  IF t = <<>> THEN <<>>
        ELSE IF ws = {} THEN <<t>>
        ELSE LET k == CHOOSE i \in ws : \A j \in ws : i <= j
             IN  <<SubSeq(t, 1, k - 1)>> \o Split(SubSeq(t, k + 1, Len(t)))

\* sep.join(parts)
RECURSIVE Join(_, _)
Join(parts, sep) ==
    IF parts = <<>> THEN <<>>
    ELSE IF Len(parts) = 1 THEN parts[1]
    ELSE parts[1] \o sep \o Join(Tail(parts), sep)

\* the character class [a-z0-9\s-]
SlugChars == LowerLetters \cup Digits \cup Whitespace \cup {"-"}

(***************************************************************************)
(* slugify, as each script defines it                                      *)
(***************************************************************************)
\* merge-clusters-to-ontology.py
slugify(t) ==
    LET s1 == Strip(Lower(t), Whitespace)
        s2 == DeleteOutside(s1, SlugChars)
        s3 == CollapseRuns(s2, Whitespace, "-")
        s4 == CollapseRuns(s3, {"-"}, "-")
    IN  Strip(s4, {"-"})

\* expand-ontology-from-clusters.py: no collapse of repeated hyphens
slugify_expand(t) ==
    LET s1 == Strip(Lower(t), Whitespace)
        s2 == DeleteOutside(s1, SlugChars)
        s3 == CollapseRuns(s2, Whitespace, "-")
    IN  Strip(s3, {"-"})

(***************************************************************************)
(* Bounded strings                                                         *)
(***************************************************************************)
MaxLen == 4

SlugAlphabet == {"a", "A", " ", "-", "!"}

StringsUpTo(alphabet, n) == UNION {[1..k -> alphabet] : k \in 0..n}

(***************************************************************************)
(* SpecSlug: both slugify functions applied to one argument                *)
(***************************************************************************)
SlugIdle ==
    /\ text = <<>>
    /\ merger_slug = <<>>
    /\ expander_slug = <<>>

MergeIdle ==
    /\ ontology = <<>>
    /\ ontology_file = <<>>
    /\ slug_to_entry = <<>>
    /\ surface_to_slug = <<>>
    /\ synonym_table = <<>>
    /\ clusters = <<>>
    /\ ci = 0
    /\ matched_slug = <<>>
    /\ stats = <<>>
    /\ unmatched_clusters = <<>>
    /\ ontology_v2 = <<>>
    /\ run = 0

ExpandIdle ==
    /\ unmatched_file = <<>>
    /\ fdc_candidates = <<>>
    /\ min_count = 0
    /\ dry_run = FALSE
    /\ existing_slugs = {}
    /\ existing_surfaces = {}
    /\ new_entries = <<>>
    /\ skipped_existing = 0
    /\ skipped_no_fdc = 0

BuildIdle ==
    /\ ingredients = <<>>
    /\ cluster_keys = <<>>
    /\ freq = <<>>
    /\ min_freq = 0
    /\ fi = 0
    /\ build_clusters = <<>>
    /\ filtered_low = 0
    /\ kept = 0
    /\ gi = 0
    /\ output_clusters = <<>>
    /\ synonym_clusters = <<>>
    /\ first_clusters = <<>>

InitSlug ==
    /\ pc = "slug_arg"
    /\ text \in StringsUpTo(SlugAlphabet, MaxLen)
    /\ merger_slug = <<>>
    /\ expander_slug = <<>>
    /\ MergeIdle
    /\ ExpandIdle
    /\ BuildIdle

Slugify ==
    /\ pc = "slug_arg"
    /\ merger_slug' = slugify(text)
    /\ expander_slug' = slugify_expand(text)
    /\ pc' = "slug_done"
    /\ UNCHANGED <<text, merge_vars, expand_vars, build_vars>>

NextSlug == Slugify

SpecSlug == InitSlug /\ [][NextSlug]_vars

\* C8: the Expander's slug function equals the Merger's slugify rule, and no
\* slug holds two consecutive hyphens.
HasDoubleHyphen(s) == \E i \in 1..(Len(s) - 1) : s[i] = "-" /\ s[i + 1] = "-"

C8_SameSlugFunction ==
    pc = "slug_done" =>
        /\ expander_slug = merger_slug
        /\ ~HasDoubleHyphen(expander_slug)
        /\ ~HasDoubleHyphen(merger_slug)

(***************************************************************************)
(* list.sort(key=lambda e: e["slug"]): stable, by code point               *)
(***************************************************************************)
\* the characters a slug is made of, in code-point order
CharOrder ==
    <<"-", "0","1","2","3","4","5","6","7","8","9",
      "a","b","c","d","e","f","g","h","i","j","k","l","m",
      "n","o","p","q","r","s","t","u","v","w","x","y","z">>

CharRank(c) == CHOOSE i \in 1..Len(CharOrder) : CharOrder[i] = c

\* a < b on str
RECURSIVE StrLess(_, _)
StrLess(a, b) ==
    IF b = <<>> THEN FALSE
    ELSE IF a = <<>> THEN TRUE
    ELSE IF Head(a) = Head(b) THEN StrLess(Tail(a), Tail(b))
    ELSE CharRank(Head(a)) < CharRank(Head(b))

\* e placed after every element whose slug is not greater (stability)
InsertBySlug(sorted, e) ==
    LET after == {i \in 1..Len(sorted) : StrLess(e.slug, sorted[i].slug)}
        k == IF after = {} THEN Len(sorted) + 1
             ELSE CHOOSE i \in after : \A j \in after : i <= j
    IN  SubSeq(sorted, 1, k - 1) \o <<e>> \o SubSeq(sorted, k, Len(sorted))

RECURSIVE SortPrefix(_, _)
SortPrefix(list, k) ==
    IF k = 0 THEN <<>> ELSE InsertBySlug(SortPrefix(list, k - 1), list[k])

SortBySlug(list) == SortPrefix(list, Len(list))

(***************************************************************************)
(* Vocabulary Merger: merge-clusters-to-ontology.py, main                  *)
(*                                                                         *)
(* An entry is [slug, surfaceForms, confirmTokens, recipeCount, fdc,       *)
(* fdcCandidate]; an absent "surfaceForms" reads as []                     *)
(* (e.get("surfaceForms", [])).  The display name and the other curated    *)
(* keys are never read by the scripts and are left out.  A cluster is      *)
(* [canonical, aliases, totalUsage], each alias [name, count].             *)
(***************************************************************************)
Positions(list) == 1..Len(list)

Last(S) == CHOOSE i \in S : \A j \in S : j <= i

First(S) == CHOOSE i \in S : \A j \in S : i <= j

LowerForms(forms) == {Lower(forms[i]) : i \in Positions(forms)}

\* slug_to_entry = {e["slug"]: e for e in ontology}: the last entry of a slug
SlugIndex(ont) ==
    [s \in {ont[i].slug : i \in Positions(ont)} |->
        Last({i \in Positions(ont) : ont[i].slug = s})]

\* surface_to_slug[sf.lower()] = e["slug"], entry by entry: the last one stays
SurfaceIndex(ont) ==
    [k \in UNION {LowerForms(ont[i].surfaceForms) : i \in Positions(ont)} |->
        ont[Last({i \in Positions(ont) : k \in LowerForms(ont[i].surfaceForms)})].slug]

ZeroStats ==
    [surface_forms_added |-> 0, confirm_tokens_added |-> 0,
     recipe_counts_added |-> 0, new_entries_created |-> 0,
     clusters_matched |-> 0, clusters_unmatched |-> 0]

\* all_forms = [canonical] + [a["name"] for a in aliases]
AllForms(cluster) ==
    <<cluster.canonical>> \o
    [i \in Positions(cluster.aliases) |-> cluster.aliases[i].name]

\* mutant of MatchCluster: the slug lookup tried before the surface-form lookup
MatchCluster_SlugFirst(cluster, s2s, s2e) ==
    LET canonical_lower == Lower(cluster.canonical)
        cluster_slug == slugify(cluster.canonical)
        hits == {i \in Positions(cluster.aliases) :
                    Lower(cluster.aliases[i].name) \in DOMAIN s2s}
    IN  IF cluster_slug \in DOMAIN s2e THEN <<cluster_slug>>
        ELSE IF canonical_lower \in DOMAIN s2s THEN <<s2s[canonical_lower]>>
        ELSE IF hits # {} THEN <<s2s[Lower(cluster.aliases[First(hits)].name)]>>
        ELSE <<>>

\* the three lookups, in the order of the code; <<>> is None
MatchCluster(cluster, s2s, s2e) ==
    LET canonical_lower == Lower(cluster.canonical)
        cluster_slug == slugify(cluster.canonical)
        hits == {i \in Positions(cluster.aliases) :
                    Lower(cluster.aliases[i].name) \in DOMAIN s2s}
    IN  IF canonical_lower \in DOMAIN s2s THEN <<s2s[canonical_lower]>>
        ELSE IF cluster_slug \in DOMAIN s2e THEN <<cluster_slug>>
        ELSE IF hits # {} THEN <<s2s[Lower(cluster.aliases[First(hits)].name)]>>
        ELSE <<>>

\* `if matched_slug:` is false for None and for the empty string
Truthy(m) == m # <<>> /\ m[1] # <<>>

\* the loop that appends each form whose lowercase the entry does not hold yet
RECURSIVE AddForms(_, _)
AddForms(surfaceForms, forms) ==
    IF forms = <<>> THEN surfaceForms
    ELSE IF Lower(Head(forms)) \in LowerForms(surfaceForms)
         THEN AddForms(surfaceForms, Tail(forms))
         ELSE AddForms(Append(surfaceForms, Head(forms)), Tail(forms))

\* mutant of RaisesCount: <= for <
RaisesCount_OrEqual(recipeCount, total_count) ==
    recipeCount = <<>> \/ recipeCount[1] <= total_count

\* recipeCount is set when absent or lower than totalUsage
RaisesCount(recipeCount, total_count) ==
    recipeCount = <<>> \/ recipeCount[1] < total_count

\* the SYNONYM_TABLE entry of a key, <<>> when there is none
TableKeys(table) == {table[i][1] : i \in Positions(table)}

TableGet(table, key) ==
    IF key \in TableKeys(table)
    THEN <<table[CHOOSE i \in Positions(table) : table[i][1] = key][2]>>
    ELSE <<>>

\* mutant of AttachTokens: the tokens written whether the key is there or not
AttachTokens_Overwrite(confirmTokens, tokens) == <<tokens>>

\* confirmTokens is written only when the key is absent from the entry
AttachTokens(confirmTokens, tokens) ==
    IF confirmTokens = <<>> THEN <<tokens>> ELSE confirmTokens

\* the entry after a matched cluster
MergedEntry(entry, cluster, table) ==
    LET offered == TableGet(table, Lower(cluster.canonical))
    IN  [entry EXCEPT
            !.surfaceForms = AddForms(@, AllForms(cluster)),
            !.recipeCount = IF RaisesCount(@, cluster.totalUsage)
                            THEN <<cluster.totalUsage>> ELSE @,
            !.confirmTokens = IF offered # <<>> THEN AttachTokens(@, offered[1])
                              ELSE @]

\* mutant of RegisterForms: the canonical only
RegisterForms_CanonicalOnly(s2s, forms, slug) ==
    [k \in DOMAIN s2s \cup {Lower(forms[1])} |->
        IF k = Lower(forms[1]) THEN slug ELSE s2s[k]]

\* surface_to_slug[form.lower()] = matched_slug for every form of the cluster
RegisterForms(s2s, forms, slug) ==
    [k \in DOMAIN s2s \cup LowerForms(forms) |->
        IF k \in LowerForms(forms) THEN slug ELSE s2s[k]]

\* the record appended to unmatched_clusters
UnmatchedRecord(cluster) ==
    [canonical |-> cluster.canonical,
     count |-> cluster.totalUsage,
     aliases |-> [i \in 1..(IF Len(cluster.aliases) < 5 THEN Len(cluster.aliases) ELSE 5)
                    |-> cluster.aliases[i].name]]

Bump(n, cond) == IF cond THEN n + 1 ELSE n

\* one iteration of `for cluster in clusters`
MergeCluster ==
    /\ pc = "merge_loop"
    /\ ci <= Len(clusters)
    /\ LET cluster == clusters[ci]
           m == MatchCluster(cluster, surface_to_slug, slug_to_entry)
       IN  /\ matched_slug' = m
           /\ IF Truthy(m)
              THEN LET k == slug_to_entry[m[1]]
                       entry == ontology[k]
                       merged == MergedEntry(entry, cluster, synonym_table)
                   IN  /\ ontology' = [ontology EXCEPT ![k] = merged]
                       /\ stats' = [stats EXCEPT
                            !.clusters_matched = @ + 1,
                            !.surface_forms_added =
                                @ + Len(merged.surfaceForms) - Len(entry.surfaceForms),
                            !.recipe_counts_added =
                                Bump(@, RaisesCount(entry.recipeCount, cluster.totalUsage)),
                            !.confirm_tokens_added =
                                Bump(@, merged.confirmTokens # entry.confirmTokens)]
                       /\ surface_to_slug' =
                            RegisterForms(surface_to_slug, AllForms(cluster), m[1])
                       /\ UNCHANGED unmatched_clusters
              ELSE /\ stats' = [stats EXCEPT !.clusters_unmatched = @ + 1]
                   /\ unmatched_clusters' =
                        Append(unmatched_clusters, UnmatchedRecord(cluster))
                   /\ UNCHANGED <<ontology, surface_to_slug>>
    /\ ci' = ci + 1
    /\ UNCHANGED <<pc, ontology_file, ontology_v2, slug_to_entry, synonym_table,
                   clusters, run, slug_vars, expand_vars, build_vars>>

\* the post-pass over SYNONYM_TABLE, in the table's order
RECURSIVE ConfirmPass(_, _, _, _)
ConfirmPass(ont, table, s2s, s2e) ==
    IF table = <<>> THEN ont
    ELSE LET key == Head(table)[1]
             tokens == Head(table)[2]
             slug == IF key \in DOMAIN s2s THEN <<s2s[key]>> ELSE <<>>
             next ==
                IF Truthy(slug) /\ slug[1] \in DOMAIN s2e
                THEN [ont EXCEPT ![s2e[slug[1]]].confirmTokens =
                                    AttachTokens(@, tokens)]
                ELSE ont
         IN  ConfirmPass(next, Tail(table), s2s, s2e)

CountWithTokens(ont) ==
    Cardinality({i \in Positions(ont) : ont[i].confirmTokens # <<>>})

\* after the loop: the post-pass, then ontology.sort by slug
MergePostPass ==
    /\ pc = "merge_loop"
    /\ ci > Len(clusters)
    /\ LET passed == ConfirmPass(ontology, synonym_table, surface_to_slug, slug_to_entry)
       IN  /\ ontology' = SortBySlug(passed)
           /\ stats' = [stats EXCEPT !.confirm_tokens_added =
                            @ + CountWithTokens(passed) - CountWithTokens(ontology)]
    /\ pc' = "merge_write"
    /\ UNCHANGED <<ontology_file, ontology_v2, slug_to_entry, surface_to_slug,
                   synonym_table, clusters, ci, matched_slug, unmatched_clusters,
                   run, slug_vars, expand_vars, build_vars>>

\* the run without --dry-run writes ingredient-ontology-v2.json
MergeWrite ==
    /\ pc = "merge_write"
    /\ ontology_v2' = ontology
    /\ pc' = "merge_done"
    /\ UNCHANGED <<ontology, ontology_file, slug_to_entry, surface_to_slug,
                   synonym_table, clusters, ci, matched_slug, stats,
                   unmatched_clusters, run, slug_vars, expand_vars, build_vars>>

\* the state of main when the loop starts, for an existing ontology `ont`
MergeLoaded(ont) ==
    /\ ontology' = ont
    /\ slug_to_entry' = SlugIndex(ont)
    /\ surface_to_slug' = SurfaceIndex(ont)
    /\ stats' = ZeroStats
    /\ unmatched_clusters' = <<>>
    /\ matched_slug' = <<>>
    /\ ci' = 1

\* the script run again, the written ontology being the existing one and the
\* clusters and the synonym table the same
MergeRerun ==
    /\ pc = "merge_done"
    /\ run = 1
    /\ MergeLoaded(ontology_v2)
    /\ run' = 2
    /\ pc' = "merge_loop"
    /\ UNCHANGED <<ontology_file, ontology_v2, synonym_table, clusters, slug_vars, expand_vars, build_vars>>

(***************************************************************************)
(* The inputs of the Merger                                                *)
(***************************************************************************)
MaxEntries == 2
MaxForms == 1
MaxClusters == 2
MaxAliases == 1
MaxCount == 2

SeqsUpTo(S, n) == UNION {[1..k -> S] : k \in 0..n}

\* "a" and "A" differ by case only; "b a" shares the token "a" with them
MergeNames == { <<"a">>, <<"A">>, <<"b", " ", "a">> }

OntologySlugs == { <<"a">>, <<"b", "-", "a">> }

\* token groups: the curated ones, and those SYNONYM_TABLE gives for a key
CuratedTokens == << << <<"o">> >> >>

TableTokens(key) == << <<key>> >>

SynonymTable == << <<(<<"a">>), TableTokens(<<"a">>)>> >>

NoCaseDup(forms) ==
    \A i, j \in Positions(forms) : Lower(forms[i]) = Lower(forms[j]) => i = j

\* surface forms are unique within an entry, whatever the case
FormLists == {f \in SeqsUpTo(MergeNames, MaxForms) : NoCaseDup(f)}

\* entries that differ by their surface forms only
PlainEntries(slug) ==
    [slug : {slug},
     surfaceForms : FormLists,
     confirmTokens : {<<>>},
     recipeCount : {<<>>},
     fdc : {<<slug>>},
     fdcCandidate : {<<>>}]

\* entries that carry confirmTokens and a recipeCount
CuratedEntries(slug) ==
    [slug : {slug},
     surfaceForms : FormLists,
     confirmTokens : {<<CuratedTokens>>},
     recipeCount : {<<MaxCount>>},
     fdc : {<<slug>>},
     fdcCandidate : {<<>>}]

\* entries with both keys, and entries with neither
MetaEntries(slug) == PlainEntries(slug) \cup CuratedEntries(slug)

DistinctSlugLists(k) ==
    {q \in [1..k -> OntologySlugs] : \A i, j \in 1..k : q[i] = q[j] => i = j}

SortedSlugLists(k) ==
    {q \in DistinctSlugLists(k) : \A i, j \in 1..k : i < j => StrLess(q[i], q[j])}

\* the ontologies of k entries whose slugs are `slugs`, in that order
OntologiesOf(slugs, entries) ==
    {ont \in [1..Len(slugs) -> entries] :
        \A i \in 1..Len(slugs) : ont[i].slug = slugs[i]}

\* slugs pairwise distinct; the file sorted by slug
MetaOntologies ==
    UNION {UNION {OntologiesOf(q, UNION {MetaEntries(s) : s \in OntologySlugs}) :
                  q \in SortedSlugLists(k)} :
           k \in 0..MaxEntries}

\* slugs pairwise distinct; the file in any order
PlainOntologies ==
    UNION {UNION {OntologiesOf(q, UNION {PlainEntries(s) : s \in OntologySlugs}) :
                  q \in DistinctSlugLists(k)} :
           k \in 0..MaxEntries}

Aliases == [name : MergeNames, count : {5}]

MetaClusters ==
    [canonical : MergeNames,
     aliases : SeqsUpTo(Aliases, MaxAliases),
     totalUsage : 1..MaxCount]

\* one more alias, one totalUsage
AliasClusters ==
    [canonical : MergeNames,
     aliases : SeqsUpTo(Aliases, MaxAliases + 1),
     totalUsage : {1}]

\* main up to the loop, on an existing ontology, clusters and SYNONYM_TABLE
MergeStart(onts, cls, tables) ==
    /\ pc = "merge_loop"
    /\ SlugIdle
    /\ ExpandIdle
    /\ BuildIdle
    /\ ontology_file \in onts
    /\ ontology = ontology_file
    /\ ontology_v2 = <<>>
    /\ slug_to_entry = SlugIndex(ontology_file)
    /\ surface_to_slug = SurfaceIndex(ontology_file)
    /\ synonym_table \in tables
    /\ clusters \in SeqsUpTo(cls, MaxClusters)
    /\ ci = 1
    /\ matched_slug = <<>>
    /\ stats = ZeroStats
    /\ unmatched_clusters = <<>>
    /\ run = 1

InitMerge ==
    \/ MergeStart(MetaOntologies, MetaClusters, {SynonymTable})
    \/ MergeStart(PlainOntologies, AliasClusters, {<<>>})

NextMerge == MergeCluster \/ MergePostPass \/ MergeWrite

SpecMerge == InitMerge /\ [][NextMerge]_vars

\* the Merger run twice in succession
NextRemerge == NextMerge \/ MergeRerun

SpecRemerge == InitMerge /\ [][NextRemerge]_vars

(***************************************************************************)
(* Properties of one Merger run                                            *)
(***************************************************************************)
\* the positions of the entries that hold `form`, whatever the case
Holders(ont, form) ==
    {i \in Positions(ont) : Lower(form) \in LowerForms(ont[i].surfaceForms)}

\* no surface form belongs to two entries
FormsUnique(ont) ==
    \A i, j \in Positions(ont) :
        LowerForms(ont[i].surfaceForms) \cap LowerForms(ont[j].surfaceForms) # {}
            => i = j

\* C2: if no surface form of the existing ontology belongs to two entries,
\* then during and after the merge no surface form belongs to two entries.
C2_FormsStayUnique == FormsUnique(ontology_file) => FormsUnique(ontology)

\* the entry of `ont` with slug `slug` (slugs are pairwise distinct)
EntryOf(ont, slug) == ont[CHOOSE i \in Positions(ont) : ont[i].slug = slug]

\* the loop is at a cluster it has not processed yet
AtCluster == pc = "merge_loop" /\ ci <= Len(clusters)

\* the step merged the cluster into the entry of `slug`, and only there
RoutedTo(cluster, slug) ==
    /\ matched_slug' = <<slug>>
    /\ stats'.clusters_matched = stats.clusters_matched + 1
    /\ stats'.clusters_unmatched = stats.clusters_unmatched
    /\ unmatched_clusters' = unmatched_clusters
    /\ \A i \in Positions(ontology) : ontology[i].slug # slug => ontology'[i] = ontology[i]
    /\ LowerForms(AllForms(cluster)) \subseteq
            LowerForms(EntryOf(ontology', slug).surfaceForms)

\* the step sent the cluster to the unmatched output and left the ontology alone
RoutedToUnmatched(cluster) ==
    /\ matched_slug' = <<>>
    /\ ontology' = ontology
    /\ surface_to_slug' = surface_to_slug
    /\ stats'.clusters_unmatched = stats.clusters_unmatched + 1
    /\ stats'.clusters_matched = stats.clusters_matched
    /\ Len(unmatched_clusters') = Len(unmatched_clusters) + 1
    /\ unmatched_clusters'[Len(unmatched_clusters')].canonical = cluster.canonical
    /\ unmatched_clusters'[Len(unmatched_clusters')].count = cluster.totalUsage

TokensOf(name) == {Split(name)[i] : i \in Positions(Split(name))}

RECURSIVE IsSubsequence(_, _)
IsSubsequence(a, b) ==
    IF a = <<>> THEN TRUE
    ELSE IF b = <<>> THEN FALSE
    ELSE IF Head(a) = Head(b) THEN IsSubsequence(Tail(a), Tail(b))
    ELSE IsSubsequence(a, Tail(b))

\* what `new` keeps of the entry `old`
Keeps(old, new) ==
    /\ new.slug = old.slug
    /\ new.fdc = old.fdc
    /\ IsSubsequence(old.surfaceForms, new.surfaceForms)
    /\ old.confirmTokens # <<>> => new.confirmTokens = old.confirmTokens
    /\ old.recipeCount # <<>> =>
          new.recipeCount # <<>> /\ new.recipeCount[1] >= old.recipeCount[1]

\* C5: the merge is additive only: every entry of the existing ontology is
\* still there, with every surface form it had in its original casing and
\* relative order, its confirmTokens if it had any, its link and slug, and a
\* recipeCount not lower than before; no entry is deleted or created.
C5_AdditiveOnly ==
    /\ Len(ontology) = Len(ontology_file)
    /\ \A i \in Positions(ontology_file) :
          \E j \in Positions(ontology) : Keeps(ontology_file[i], ontology[j])
    /\ \A j \in Positions(ontology) :
          \E i \in Positions(ontology_file) : ontology_file[i].slug = ontology[j].slug

\* C5 witness: after the post-pass, an entry that had confirmTokens, a
\* recipeCount and a surface form was matched by a cluster of lower
\* totalUsage whose canonical is a SYNONYM_TABLE key, and gained a form.
C5_Witness ==
    /\ pc = "merge_write"
    /\ \E i \in Positions(ontology_file) :
          LET old == ontology_file[i]
              new == EntryOf(ontology, old.slug)
          IN  /\ old.confirmTokens # <<>>
              /\ old.recipeCount # <<>>
              /\ old.surfaceForms # <<>>
              /\ Len(new.surfaceForms) > Len(old.surfaceForms)
              /\ \E k \in Positions(clusters) :
                    /\ clusters[k].totalUsage < old.recipeCount[1]
                    /\ Lower(clusters[k].canonical) \in TableKeys(synonym_table)
                    /\ Lower(clusters[k].canonical) \in LowerForms(old.surfaceForms)

(***************************************************************************)
(* Properties of the Merger run twice in succession                        *)
(***************************************************************************)
\* the second run has finished its loop, post-pass and sort
SecondRunDone == run = 2 /\ pc = "merge_write"

\* the second run changed nothing and counted no change
NoChangeOnRerun ==
    /\ ontology = ontology_v2
    /\ stats.surface_forms_added = 0
    /\ stats.confirm_tokens_added = 0
    /\ stats.recipe_counts_added = 0
    /\ stats.new_entries_created = 0

\* C1 (as claimed): for any ontology, any cluster list and any synonym
\* table, the second run, on the first run's output and the same clusters,
\* adds no surface form and no confirmTokens, changes no recipeCount and
\* counts no change.
C1_IdempotentForAnyInput == SecondRunDone => NoChangeOnRerun

\* every name of every cluster, canonical first
RECURSIVE ClusterNames(_)
ClusterNames(cls) ==
    IF cls = <<>> THEN <<>> ELSE AllForms(Head(cls)) \o ClusterNames(Tail(cls))

\* no name occurs twice in the cluster list, whatever the case: the lists the
\* Cluster Builder writes, where every ingredient string is lowercased and is
\* a member of one group
NamesOccurOnce(cls) == NoCaseDup(ClusterNames(cls))

\* C1 (amended): when no surface form of the existing ontology belongs to two
\* entries and no name occurs twice in the cluster list, the second run adds
\* no surface form and no confirmTokens, changes no recipeCount and leaves
\* surface_forms_added, confirm_tokens_added and recipe_counts_added at 0;
\* clusters_matched and clusters_unmatched tally every cluster again.
C1_IdempotentOnBuilderClusters ==
    SecondRunDone /\ FormsUnique(ontology_file) /\ NamesOccurOnce(clusters) =>
        /\ NoChangeOnRerun
        /\ stats.clusters_matched + stats.clusters_unmatched = Len(clusters)

\* C1 witness: the first run added a surface form, and the second run, which
\* matched both clusters of a list without a repeated name, is done.
C1_Witness ==
    /\ SecondRunDone
    /\ FormsUnique(ontology_file)
    /\ NamesOccurOnce(clusters)
    /\ Len(clusters) = 2
    /\ stats.clusters_matched = 2
    /\ \E i \in Positions(ontology_file) :
          Len(EntryOf(ontology_v2, ontology_file[i].slug).surfaceForms)
              > Len(ontology_file[i].surfaceForms)

(***************************************************************************)
(* Ontology Expander: expand-ontology-from-clusters.py, main               *)
(*                                                                         *)
(* An unmatched cluster is [canonical, count, aliases], the aliases being  *)
(* names.  An oracle candidate is [description, category, score].          *)
(***************************************************************************)
\* " ".join(text.lower().strip().split())
normalize_surface(t) == Join(Split(Strip(Lower(t), Whitespace)), <<" ">>)

\* clusters = [c for c in clusters if c["count"] >= args.min_count]
FilterByCount(cls, n) == SelectSeq(cls, LAMBDA c : c.count >= n)

\* fdc_candidates.get(key): <<>> is None
OracleGet(oracle, key) ==
    LET hits == {i \in Positions(oracle) : oracle[i][1] = key}
    IN  IF hits = {} THEN <<>> ELSE <<oracle[First(hits)][2]>>

\* the candidate of the canonical, else of the first alias that has one
FindCandidate(cluster, oracle) ==
    LET direct == OracleGet(oracle, Lower(cluster.canonical))
        hits == {i \in Positions(cluster.aliases) :
                    OracleGet(oracle, Lower(cluster.aliases[i])) # <<>>}
    IN  IF direct # <<>> THEN direct
        ELSE IF hits # {} THEN OracleGet(oracle, Lower(cluster.aliases[First(hits)]))
        ELSE <<>>

\* the aliases appended to surface_forms: normalized, not seen in this
\* cluster, not a surface form of the loaded ontology
RECURSIVE AssembleForms(_, _, _)
AssembleForms(surface_forms, aliases, surfaces) ==
    IF aliases = <<>> THEN surface_forms
    ELSE LET norm_alias == normalize_surface(Head(aliases))
             seen == {surface_forms[i] : i \in Positions(surface_forms)}
         IN  IF norm_alias \notin seen /\ norm_alias \notin surfaces
             THEN AssembleForms(Append(surface_forms, norm_alias), Tail(aliases), surfaces)
             ELSE AssembleForms(surface_forms, Tail(aliases), surfaces)

\* the entry created for a cluster
NewEntry(cluster, oracle, surfaces) ==
    LET fdc_match == FindCandidate(cluster, oracle)
    IN  [slug |-> slugify_expand(cluster.canonical),
         surfaceForms |->
            AssembleForms(<<normalize_surface(cluster.canonical)>>,
                          cluster.aliases, surfaces),
         confirmTokens |-> <<>>,
         recipeCount |-> <<cluster.count>>,
         fdc |-> <<>>,
         fdcCandidate |->
            IF fdc_match # <<>>
            THEN << <<[description |-> fdc_match[1].description,
                       category |-> fdc_match[1].category,
                       matchScore |-> fdc_match[1].score]>> >>
            ELSE << <<>> >>]

\* the two skip tests
AlreadyThere(cluster, slugs, surfaces) ==
    \/ slugify_expand(cluster.canonical) \in slugs
    \/ normalize_surface(cluster.canonical) \in surfaces

\* the filter by --min-count
ExpandFilter ==
    /\ pc = "expand_filter"
    /\ clusters' = FilterByCount(clusters, min_count)
    /\ ci' = 1
    /\ pc' = "expand_loop"
    /\ UNCHANGED <<ontology, ontology_file, ontology_v2, slug_to_entry,
                   surface_to_slug, synonym_table, matched_slug, stats,
                   unmatched_clusters, run, slug_vars, expand_vars, build_vars>>

\* one iteration of `for cluster in clusters`
ExpandCluster ==
    /\ pc = "expand_loop"
    /\ ci <= Len(clusters)
    /\ LET cluster == clusters[ci]
       IN  IF AlreadyThere(cluster, existing_slugs, existing_surfaces)
           THEN /\ skipped_existing' = skipped_existing + 1
                /\ UNCHANGED <<new_entries, skipped_no_fdc>>
           ELSE /\ new_entries' =
                      Append(new_entries,
                             NewEntry(cluster, fdc_candidates, existing_surfaces))
                /\ skipped_no_fdc' =
                      Bump(skipped_no_fdc, FindCandidate(cluster, fdc_candidates) = <<>>)
                /\ UNCHANGED skipped_existing
    /\ ci' = ci + 1
    /\ UNCHANGED <<pc, unmatched_file, fdc_candidates, min_count, dry_run,
                   existing_slugs, existing_surfaces, ontology, ontology_file,
                   ontology_v2, slug_to_entry, surface_to_slug, synonym_table,
                   clusters, matched_slug, stats, unmatched_clusters, run,
                   slug_vars, build_vars>>

\* new_entries.sort(key=lambda x: -x["recipeCount"]): stable
InsertByCount(sorted, e) ==
    LET after == {i \in Positions(sorted) : sorted[i].recipeCount[1] < e.recipeCount[1]}
        k == IF after = {} THEN Len(sorted) + 1 ELSE First(after)
    IN  SubSeq(sorted, 1, k - 1) \o <<e>> \o SubSeq(sorted, k, Len(sorted))

RECURSIVE SortByCountPrefix(_, _)
SortByCountPrefix(list, k) ==
    IF k = 0 THEN <<>> ELSE InsertByCount(SortByCountPrefix(list, k - 1), list[k])

SortByCount(list) == SortByCountPrefix(list, Len(list))

\* mutant of ExtendAndSort: the new entries left out
ExtendAndSort_Dropped(ont, entries) == SortBySlug(ont)

\* ontology.extend(new_entries); ontology.sort(key=lambda e: e["slug"])
ExtendAndSort(ont, entries) == SortBySlug(ont \o entries)

\* after the loop: the entries sorted for the report, then, unless --dry-run,
\* appended to the ontology, which is sorted by slug and written
ExpandWrite ==
    /\ pc = "expand_loop"
    /\ ci > Len(clusters)
    /\ new_entries' = SortByCount(new_entries)
    /\ IF dry_run
       THEN UNCHANGED <<ontology, ontology_v2>>
       ELSE /\ ontology' = ExtendAndSort(ontology, SortByCount(new_entries))
            /\ ontology_v2' = ontology'
    /\ pc' = "expand_done"
    /\ UNCHANGED <<unmatched_file, fdc_candidates, min_count, dry_run,
                   existing_slugs, existing_surfaces, skipped_existing,
                   skipped_no_fdc, ontology_file, slug_to_entry, surface_to_slug,
                   synonym_table, clusters, ci, matched_slug, stats,
                   unmatched_clusters, run, slug_vars, build_vars>>

\* the script run again with the same arguments and input files, the
\* ontology being the file as it is now
ExpandRerun ==
    /\ pc = "expand_done"
    /\ run = 1
    /\ ontology' = ontology_v2
    /\ existing_slugs' = {ontology_v2[i].slug : i \in Positions(ontology_v2)}
    /\ existing_surfaces' =
          UNION {LowerForms(ontology_v2[i].surfaceForms) : i \in Positions(ontology_v2)}
    /\ clusters' = unmatched_file
    /\ ci' = 0
    /\ new_entries' = <<>>
    /\ skipped_existing' = 0
    /\ skipped_no_fdc' = 0
    /\ run' = 2
    /\ pc' = "expand_filter"
    /\ UNCHANGED <<unmatched_file, fdc_candidates, min_count, dry_run,
                   ontology_file, ontology_v2, slug_to_entry, surface_to_slug,
                   synonym_table, matched_slug, stats, unmatched_clusters,
                   slug_vars, build_vars>>

(***************************************************************************)
(* The inputs of the Expander                                              *)
(***************************************************************************)
\* "b a" and "b-a" are two names of one slug
ExpandNames == { <<"a">>, <<"b", " ", "a">>, <<"b", "-", "a">> }

ExpandAliases == { <<"A">>, <<"b", " ", "a">> }

UnmatchedClusters ==
    [canonical : ExpandNames,
     count : 1..MaxCount,
     aliases : SeqsUpTo(ExpandAliases, MaxAliases)]

\* the Merger writes one record per cluster, and no two clusters of the
\* Cluster Builder have the same canonical
UnmatchedLists ==
    {cls \in SeqsUpTo(UnmatchedClusters, MaxClusters) :
        \A i, j \in Positions(cls) : cls[i].canonical = cls[j].canonical => i = j}

Candidate(key) == [description |-> key, category |-> <<"c">>, score |-> 1]

Oracles == { <<>>, << <<(<<"a">>), Candidate(<<"a">>)>> >> }

\* the file the Merger writes is sorted by slug
SortedOntologies ==
    UNION {UNION {OntologiesOf(q, UNION {PlainEntries(s) : s \in OntologySlugs}) :
                  q \in SortedSlugLists(k)} :
           k \in 0..MaxEntries}

InitExpand ==
    /\ pc = "expand_filter"
    /\ SlugIdle
    /\ BuildIdle
    /\ ontology_v2 \in SortedOntologies
    /\ ontology = ontology_v2
    /\ ontology_file = <<>>
    /\ slug_to_entry = <<>>
    /\ surface_to_slug = <<>>
    /\ synonym_table = <<>>
    /\ matched_slug = <<>>
    /\ stats = <<>>
    /\ unmatched_clusters = <<>>
    /\ unmatched_file \in UnmatchedLists
    /\ clusters = unmatched_file
    /\ ci = 0
    /\ run = 1
    /\ fdc_candidates \in Oracles
    /\ min_count \in 1..MaxCount
    /\ dry_run \in BOOLEAN
    /\ existing_slugs = {ontology_v2[i].slug : i \in Positions(ontology_v2)}
    /\ existing_surfaces =
          UNION {LowerForms(ontology_v2[i].surfaceForms) : i \in Positions(ontology_v2)}
    /\ new_entries = <<>>
    /\ skipped_existing = 0
    /\ skipped_no_fdc = 0

NextExpand == ExpandFilter \/ ExpandCluster \/ ExpandWrite \/ ExpandRerun

SpecExpand == InitExpand /\ [][NextExpand]_vars

(***************************************************************************)
(* Properties of the Expander                                              *)
(***************************************************************************)
SlugsUnique(ont) ==
    \A i, j \in Positions(ont) : ont[i].slug = ont[j].slug => i = j

\* C3: the slugs of the existing ontology being pairwise distinct, the new
\* entries of one expansion run have pairwise distinct slugs, and so has the
\* ontology once they are appended.
C3_SlugsStayUnique ==
    run = 1 => SlugsUnique(new_entries) /\ SlugsUnique(ontology)

\* C9: the Expander run a second time, with the same clusters, oracle and
\* min_count, on the ontology written by the first run, creates no entry.
C9_NoDoubleInsert ==
    run = 2 /\ ~dry_run => new_entries = <<>>

\* the entries the Expander created
Created(ont) == {i \in Positions(ont) : ont[i].fdcCandidate # <<>>}

\* C9 witness: the first run wrote two new entries, and the second run has
\* gone through both clusters again and skipped them.
C9_Witness ==
    /\ run = 2
    /\ ~dry_run
    /\ pc = "expand_done"
    /\ Cardinality(Created(ontology)) = 2
    /\ SlugsUnique(ontology)
    /\ Len(clusters) = 2
    /\ skipped_existing = 2

(***************************************************************************)
(* The Cluster Builder: build-synonym-clusters.py                          *)
(***************************************************************************)
FORM_MODIFIERS ==
    { <<"p","o","w","d","e","r">>,
      <<"p","o","w","d","e","r","e","d">>,
      <<"g","r","o","u","n","d">>,
      <<"g","r","a","n","u","l","a","t","e","d">>,
      <<"g","r","a","n","u","l","e","s">>,
      <<"f","l","a","k","e","s">>,
      <<"f","l","a","k","e","d">>,
      <<"m","i","n","c","e","d">>,
      <<"c","h","o","p","p","e","d">>,
      <<"d","i","c","e","d">>,
      <<"s","l","i","c","e","d">>,
      <<"s","h","r","e","d","d","e","d">>,
      <<"g","r","a","t","e","d">>,
      <<"c","r","u","s","h","e","d">>,
      <<"w","h","o","l","e">>,
      <<"h","a","l","v","e","d">>,
      <<"q","u","a","r","t","e","r","e","d">>,
      <<"c","u","b","e","d">>,
      <<"m","a","s","h","e","d">>,
      <<"p","u","r","e","e","d">>,
      <<"f","r","e","s","h">>,
      <<"d","r","i","e","d">>,
      <<"d","r","y">>,
      <<"f","r","o","z","e","n">>,
      <<"c","a","n","n","e","d">>,
      <<"p","i","c","k","l","e","d">>,
      <<"s","m","o","k","e","d">>,
      <<"c","u","r","e","d">>,
      <<"r","o","a","s","t","e","d">>,
      <<"t","o","a","s","t","e","d">>,
      <<"r","a","w">>,
      <<"c","o","o","k","e","d">>,
      <<"u","n","c","o","o","k","e","d">>,
      <<"b","l","a","n","c","h","e","d">>,
      <<"p","e","e","l","e","d">>,
      <<"s","e","e","d","e","d">>,
      <<"p","i","t","t","e","d">>,
      <<"b","o","n","e","l","e","s","s">>,
      <<"s","k","i","n","l","e","s","s">>,
      <<"m","e","l","t","e","d">>,
      <<"s","o","f","t","e","n","e","d">>,
      <<"l","a","r","g","e">>,
      <<"m","e","d","i","u","m">>,
      <<"s","m","a","l","l">>,
      <<"b","a","b","y">>,
      <<"m","i","n","i">>,
      <<"j","u","m","b","o">>,
      <<"t","h","i","n">>,
      <<"t","h","i","c","k">>,
      <<"o","r","g","a","n","i","c">>,
      <<"n","a","t","u","r","a","l">>,
      <<"p","u","r","e">>,
      <<"r","e","a","l">>,
      <<"i","m","i","t","a","t","i","o","n">>,
      <<"l","o","w","-","f","a","t">>,
      <<"n","o","n","f","a","t">>,
      <<"u","n","s","a","l","t","e","d">>,
      <<"s","a","l","t","e","d">>,
      <<"s","w","e","e","t","e","n","e","d">>,
      <<"u","n","s","w","e","e","t","e","n","e","d">> }

UNIT_WORDS ==
    { <<"c","l","o","v","e">>,
      <<"c","l","o","v","e","s">>,
      <<"h","e","a","d">>,
      <<"h","e","a","d","s">>,
      <<"b","u","l","b">>,
      <<"b","u","l","b","s">>,
      <<"s","t","a","l","k">>,
      <<"s","t","a","l","k","s">>,
      <<"l","e","a","f">>,
      <<"l","e","a","v","e","s">>,
      <<"s","p","r","i","g">>,
      <<"s","p","r","i","g","s">>,
      <<"b","u","n","c","h">>,
      <<"b","u","n","c","h","e","s">>,
      <<"r","i","b">>,
      <<"r","i","b","s">>,
      <<"e","a","r">>,
      <<"e","a","r","s">>,
      <<"s","t","r","i","p">>,
      <<"s","t","r","i","p","s">>,
      <<"p","i","e","c","e">>,
      <<"p","i","e","c","e","s">>,
      <<"s","l","i","c","e">>,
      <<"s","l","i","c","e","s">>,
      <<"c","u","p">>,
      <<"c","u","p","s">>,
      <<"t","a","b","l","e","s","p","o","o","n">>,
      <<"t","a","b","l","e","s","p","o","o","n","s">>,
      <<"t","e","a","s","p","o","o","n">>,
      <<"t","e","a","s","p","o","o","n","s">>,
      <<"p","o","u","n","d">>,
      <<"p","o","u","n","d","s">>,
      <<"o","u","n","c","e">>,
      <<"o","u","n","c","e","s">>,
      <<"c","a","n">>,
      <<"c","a","n","s">>,
      <<"p","a","c","k","a","g","e">>,
      <<"p","a","c","k","a","g","e","s">> }

LEMMAS ==
    { <<<<"p","o","w","d","e","r","e","d">>, <<"p","o","w","d","e","r">>>>,
      <<<<"g","r","a","n","u","l","a","t","e","d">>, <<"g","r","a","n","u","l","e","s">>>>,
      <<<<"f","l","a","k","e","d">>, <<"f","l","a","k","e","s">>>>,
      <<<<"d","r","i","e","d">>, <<"d","r","y">>>>,
      <<<<"r","o","a","s","t","e","d">>, <<"r","o","a","s","t">>>>,
      <<<<"t","o","a","s","t","e","d">>, <<"t","o","a","s","t">>>>,
      <<<<"s","m","o","k","e","d">>, <<"s","m","o","k","e">>>>,
      <<<<"m","i","n","c","e","d">>, <<"m","i","n","c","e">>>>,
      <<<<"c","h","o","p","p","e","d">>, <<"c","h","o","p">>>>,
      <<<<"d","i","c","e","d">>, <<"d","i","c","e">>>>,
      <<<<"s","l","i","c","e","d">>, <<"s","l","i","c","e">>>>,
      <<<<"s","h","r","e","d","d","e","d">>, <<"s","h","r","e","d">>>>,
      <<<<"g","r","a","t","e","d">>, <<"g","r","a","t","e">>>>,
      <<<<"c","r","u","s","h","e","d">>, <<"c","r","u","s","h">>>>,
      <<<<"p","e","e","l","e","d">>, <<"p","e","e","l">>>>,
      <<<<"s","e","e","d","e","d">>, <<"s","e","e","d">>>>,
      <<<<"p","i","t","t","e","d">>, <<"p","i","t">>>>,
      <<<<"h","a","l","v","e","d">>, <<"h","a","l","f">>>>,
      <<<<"q","u","a","r","t","e","r","e","d">>, <<"q","u","a","r","t","e","r">>>>,
      <<<<"c","u","b","e","d">>, <<"c","u","b","e">>>>,
      <<<<"m","a","s","h","e","d">>, <<"m","a","s","h">>>>,
      <<<<"p","u","r","e","e","d">>, <<"p","u","r","e","e">>>>,
      <<<<"c","l","o","v","e","s">>, <<"c","l","o","v","e">>>>,
      <<<<"h","e","a","d","s">>, <<"h","e","a","d">>>>,
      <<<<"b","u","l","b","s">>, <<"b","u","l","b">>>>,
      <<<<"s","t","a","l","k","s">>, <<"s","t","a","l","k">>>>,
      <<<<"l","e","a","v","e","s">>, <<"l","e","a","f">>>>,
      <<<<"s","p","r","i","g","s">>, <<"s","p","r","i","g">>>>,
      <<<<"b","u","n","c","h","e","s">>, <<"b","u","n","c","h">>>>,
      <<<<"r","i","b","s">>, <<"r","i","b">>>>,
      <<<<"e","a","r","s">>, <<"e","a","r">>>>,
      <<<<"s","t","r","i","p","s">>, <<"s","t","r","i","p">>>>,
      <<<<"p","i","e","c","e","s">>, <<"p","i","e","c","e">>>> }


\* members[1:] if m["count"] >= 5
AliasFloor == 5

\* len(members) == 1 and canonical["count"] < 50; canonical["count"] >= 50
SingleFloor == 50

\* lower(), [^a-z0-9\s-] replaced by a space, split(), tokens of one
\* character dropped
tokenize(t) ==
    SelectSeq(Split(BlankOutside(Lower(t), SlugChars)), LAMBDA w : Len(w) >= 2)

\* LEMMAS.get(word, word)
lemmatize(word) ==
    IF \E p \in LEMMAS : p[1] = word
    THEN (CHOOSE p \in LEMMAS : p[1] = word)[2]
    ELSE word

\* a form token is a modifier or has a modifier as lemma and is kept as its
\* lemma; any other token that is not a unit word is a base token, kept as is
extract_base_and_form(ingredient) ==
    LET tokens == tokenize(ingredient)
        IsForm(t) == t \in FORM_MODIFIERS \/ lemmatize(t) \in FORM_MODIFIERS
        forms == SelectSeq(tokens, IsForm)
    IN  [base |-> SelectSeq(tokens, LAMBDA t : ~IsForm(t) /\ t \notin UNIT_WORDS),
         form |-> [i \in Positions(forms) |-> lemmatize(forms[i])]]

InsertWord(list, w) ==
    LET after == {i \in Positions(list) : StrLess(w, list[i])}
        k == IF after = {} THEN Len(list) + 1 ELSE First(after)
    IN  SubSeq(list, 1, k - 1) \o <<w>> \o SubSeq(list, k, Len(list))

RECURSIVE SortedPrefix(_, _)
SortedPrefix(list, k) ==
    IF k = 0 THEN <<>> ELSE InsertWord(SortedPrefix(list, k - 1), list[k])

\* sorted(list) on a list of str: repeated words stay
Sorted(list) == SortedPrefix(list, Len(list))

\* f"{base_key}|{form_key}"
make_cluster_key(base, form) ==
    LET base_key == IF base # <<>> THEN Join(Sorted(base), <<"+">>)
                    ELSE <<"_","e","m","p","t","y","_">>
        form_key == IF form # <<>> THEN Join(Sorted(form), <<"+">>)
                    ELSE <<"b","a","s","e">>
    IN  base_key \o <<"|">> \o form_key

\* the key of a raw ingredient string
KeyOf(ingredient) ==
    LET bf == extract_base_and_form(ingredient)
    IN  make_cluster_key(bf.base, bf.form)

(***************************************************************************)
(* SpecKey: the cluster keys of two raw ingredient strings                 *)
(***************************************************************************)
MaxTokens == 3

\* a base word, plain and with a capital and a comma, a modifier, a unit
\* word, a second base word and a word of one character
KeyWords ==
    { <<"g","a","r","l","i","c">>, <<"G","a","r","l","i","c",",">>,
      <<"m","i","n","c","e","d">>, <<"c","l","o","v","e","s">>,
      <<"s","a","l","t">>, <<"x">> }

RawStrings ==
    {Join(ws, <<" ">>) : ws \in UNION {[1..k -> KeyWords] : k \in 1..MaxTokens}}

InitKey ==
    /\ pc = "key_args"
    /\ SlugIdle
    /\ MergeIdle
    /\ ExpandIdle
    /\ ingredients \in RawStrings \X RawStrings
    /\ cluster_keys = <<>>
    /\ freq = <<>>
    /\ min_freq = 0
    /\ fi = 0
    /\ build_clusters = <<>>
    /\ filtered_low = 0
    /\ kept = 0
    /\ gi = 0
    /\ output_clusters = <<>>
    /\ synonym_clusters = <<>>
    /\ first_clusters = <<>>

MakeKeys ==
    /\ pc = "key_args"
    /\ cluster_keys' = <<KeyOf(ingredients[1]), KeyOf(ingredients[2])>>
    /\ pc' = "key_done"
    /\ UNCHANGED <<ingredients, freq, min_freq, fi, build_clusters, filtered_low,
                   kept, gi, output_clusters, synonym_clusters, first_clusters,
                   slug_vars, merge_vars, expand_vars>>

NextKey == MakeKeys

SpecKey == InitKey /\ [][NextKey]_vars

Range(list) == {list[i] : i \in Positions(list)}

\* C6: two raw ingredient strings get the same cluster key if and only if
\* the sets of their base tokens are equal and the sets of their lemmatized
\* form tokens are equal, whatever the order and the repetitions.
C6_KeyIsSetOfTokens ==
    cluster_keys # <<>> =>
        LET a == extract_base_and_form(ingredients[1])
            b == extract_base_and_form(ingredients[2])
        IN  (cluster_keys[1] = cluster_keys[2]) <=>
                (Range(a.base) = Range(b.base) /\ Range(a.form) = Range(b.form))

\* the keys compare as the sorted token lists do: repetitions count
KeyIsSortedTokens ==
    cluster_keys # <<>> =>
        LET a == extract_base_and_form(ingredients[1])
            b == extract_base_and_form(ingredients[2])
        IN  (cluster_keys[1] = cluster_keys[2]) <=>
                (Sorted(a.base) = Sorted(b.base) /\ Sorted(a.form) = Sorted(b.form))

(***************************************************************************)
(* The Cluster Builder: main                                               *)
(***************************************************************************)
\* mutant of AppendMember: the member replaces the list of its key
AppendMember_Overwrite(groups, key, member) ==
    LET at == {i \in Positions(groups) : groups[i].key = key}
    IN  IF at = {} THEN Append(groups, [key |-> key, members |-> <<member>>])
        ELSE [groups EXCEPT ![First(at)].members = <<member>>]

\* clusters[key].append(member) on the defaultdict: a new key goes last
AppendMember(groups, key, member) ==
    LET at == {i \in Positions(groups) : groups[i].key = key}
    IN  IF at = {} THEN Append(groups, [key |-> key, members |-> <<member>>])
        ELSE [groups EXCEPT ![First(at)].members = Append(@, member)]

\* one iteration of `for ing, count in freq.items()`
BuildGroup ==
    /\ pc = "build_loop"
    /\ fi <= Len(freq)
    /\ LET ing == freq[fi].name
           count == freq[fi].count
           bf == extract_base_and_form(ing)
           member == [name |-> ing, count |-> count, base |-> bf.base, form |-> bf.form]
       IN  IF count < min_freq
           THEN /\ filtered_low' = filtered_low + 1
                /\ UNCHANGED <<build_clusters, kept>>
           ELSE IF bf.base = <<>>
           THEN UNCHANGED <<build_clusters, kept, filtered_low>>
           ELSE /\ build_clusters' =
                      AppendMember(build_clusters,
                                   make_cluster_key(bf.base, bf.form), member)
                /\ kept' = kept + 1
                /\ UNCHANGED filtered_low
    /\ fi' = fi + 1
    /\ UNCHANGED <<pc, ingredients, cluster_keys, freq, min_freq, gi,
                   output_clusters, synonym_clusters, first_clusters,
                   slug_vars, merge_vars, expand_vars>>

\* mutant of InsertMember: m placed before the members of equal count
InsertMember_BeforeEqual(sorted, m) ==
    LET after == {i \in Positions(sorted) : sorted[i].count <= m.count}
        k == IF after = {} THEN Len(sorted) + 1 ELSE First(after)
    IN  SubSeq(sorted, 1, k - 1) \o <<m>> \o SubSeq(sorted, k, Len(sorted))

\* m placed after every member whose count is not lower (stability)
InsertMember(sorted, m) ==
    LET after == {i \in Positions(sorted) : sorted[i].count < m.count}
        k == IF after = {} THEN Len(sorted) + 1 ELSE First(after)
    IN  SubSeq(sorted, 1, k - 1) \o <<m>> \o SubSeq(sorted, k, Len(sorted))

RECURSIVE SortMembersPrefix(_, _)
SortMembersPrefix(list, k) ==
    IF k = 0 THEN <<>> ELSE InsertMember(SortMembersPrefix(list, k - 1), list[k])

\* members.sort(key=lambda x: -x["count"])
SortMembers(list) == SortMembersPrefix(list, Len(list))

\* mutant of TotalCount: the members under the alias floor are not counted
RECURSIVE TotalCount_Listed(_)
TotalCount_Listed(members) ==
    IF members = <<>> THEN 0
    ELSE (IF Head(members).count >= AliasFloor THEN Head(members).count ELSE 0)
            + TotalCount_Listed(Tail(members))

RECURSIVE TotalCount(_)
TotalCount(members) ==
    IF members = <<>> THEN 0 ELSE Head(members).count + TotalCount(Tail(members))

\* mutant of AliasesOf: a member at the floor is left out
AliasesOf_AboveFloor(members) ==
    LET rest == SelectSeq(Tail(members), LAMBDA m : m.count > AliasFloor)
    IN  [i \in Positions(rest) |-> [name |-> rest[i].name, count |-> rest[i].count]]

\* the aliases of the cluster record
AliasesOf(members) ==
    LET rest == SelectSeq(Tail(members), LAMBDA m : m.count >= AliasFloor)
    IN  [i \in Positions(rest) |-> [name |-> rest[i].name, count |-> rest[i].count]]

\* the cluster record of a group, its members sorted
ClusterRecord(members) ==
    LET canonical == members[1]
    IN  [canonical |-> canonical.name,
         count |-> canonical.count,
         base |-> canonical.base,
         form |-> IF canonical.form # <<>> THEN Join(canonical.form, <<"+">>)
                  ELSE <<"b","a","s","e">>,
         aliases |-> AliasesOf(members),
         totalUsage |-> TotalCount(members)]

\* mutant of IsEmitted: a count at the floor of a single is not enough
IsEmitted_AboveFloor(members, cluster) ==
    /\ ~(Len(members) = 1 /\ members[1].count <= SingleFloor)
    /\ (cluster.aliases # <<>> \/ members[1].count > SingleFloor)

\* the `continue` of a low-frequency single, then
\* `if cluster["aliases"] or canonical["count"] >= 50`
IsEmitted(members, cluster) ==
    /\ ~(Len(members) = 1 /\ members[1].count < SingleFloor)
    /\ (cluster.aliases # <<>> \/ members[1].count >= SingleFloor)

\* one iteration of `for key, members in clusters.items()`
BuildEmit ==
    /\ pc = "build_loop"
    /\ fi > Len(freq)
    /\ gi <= Len(build_clusters)
    /\ LET members == SortMembers(build_clusters[gi].members)
           canonical == members[1]
           cluster == ClusterRecord(members)
       IN  /\ build_clusters' = [build_clusters EXCEPT ![gi].members = members]
           /\ output_clusters' =
                IF IsEmitted(members, cluster)
                THEN Append(output_clusters, cluster)
                ELSE output_clusters
    /\ gi' = gi + 1
    /\ UNCHANGED <<pc, ingredients, cluster_keys, freq, min_freq, fi, filtered_low,
                   kept, synonym_clusters, first_clusters,
                   slug_vars, merge_vars, expand_vars>>

\* c placed after every cluster whose totalUsage is not lower (stability)
InsertCluster(sorted, c) ==
    LET after == {i \in Positions(sorted) : sorted[i].totalUsage < c.totalUsage}
        k == IF after = {} THEN Len(sorted) + 1 ELSE First(after)
    IN  SubSeq(sorted, 1, k - 1) \o <<c>> \o SubSeq(sorted, k, Len(sorted))

RECURSIVE SortClustersPrefix(_, _)
SortClustersPrefix(list, k) ==
    IF k = 0 THEN <<>> ELSE InsertCluster(SortClustersPrefix(list, k - 1), list[k])

\* output_clusters.sort(key=lambda x: -x["totalUsage"])
SortClusters(list) == SortClustersPrefix(list, Len(list))

\* the keys of base_groups
BaseGroups(list) == {Join(Sorted(list[i].base), <<"+">>) : i \in Positions(list)}

\* after the loops: the output sorted by total usage and written
BuildWrite ==
    /\ pc = "build_loop"
    /\ fi > Len(freq)
    /\ gi > Len(build_clusters)
    /\ LET sorted == SortClusters(output_clusters)
       IN  /\ output_clusters' = sorted
           /\ synonym_clusters' =
                [minFrequency |-> min_freq,
                 stats |-> [totalClusters |-> Len(sorted),
                            baseIngredients |-> Cardinality(BaseGroups(sorted)),
                            withAliases |->
                                Cardinality({i \in Positions(sorted) :
                                                sorted[i].aliases # <<>>})],
                 clusters |-> sorted]
    /\ pc' = "build_done"
    /\ UNCHANGED <<ingredients, cluster_keys, freq, min_freq, fi, build_clusters,
                   filtered_low, kept, gi, first_clusters,
                   slug_vars, merge_vars, expand_vars>>

Permuted(list) ==
    {[i \in Positions(list) |-> list[p[i]]] : p \in Permutations(Positions(list))}

\* the script run again on the same table in another order, same --min-freq
BuildRerun ==
    /\ pc = "build_done"
    /\ run = 1
    /\ freq' \in Permuted(freq)
    /\ first_clusters' = build_clusters
    /\ build_clusters' = <<>>
    /\ output_clusters' = <<>>
    /\ filtered_low' = 0
    /\ kept' = 0
    /\ fi' = 1
    /\ gi' = 1
    /\ run' = 2
    /\ pc' = "build_loop"
    /\ UNCHANGED <<ingredients, cluster_keys, min_freq, synonym_clusters,
                   ontology, ontology_file, slug_to_entry, surface_to_slug,
                   synonym_table, clusters, ci, matched_slug, stats,
                   unmatched_clusters, ontology_v2, slug_vars, expand_vars>>

(***************************************************************************)
(* The inputs of the Builder                                               *)
(***************************************************************************)
MaxFreq == 3

\* "garlic", "garlic clove" and "garlic cloves" share a key, as "minced
\* garlic" and "garlic minced" do; "minced" has no base token
BuildNames ==
    { <<"g","a","r","l","i","c">>,
      <<"g","a","r","l","i","c"," ","c","l","o","v","e">>,
      <<"g","a","r","l","i","c"," ","c","l","o","v","e","s">>,
      <<"m","i","n","c","e","d"," ","g","a","r","l","i","c">>,
      <<"g","a","r","l","i","c"," ","m","i","n","c","e","d">>,
      <<"m","i","n","c","e","d">> }

\* under the alias floor, at the alias floor, at the floor of a single
BuildCounts == {AliasFloor - 2, AliasFloor, SingleFloor}

\* parser.add_argument("--min-freq", type=int, default=5)
DefaultMinFreq == 5

\* --min-freq: under the alias floor, and the default
MinFreqs == {AliasFloor - 2, DefaultMinFreq}

\* the Counter of load_ingredients: each name once
FreqTables ==
    {t \in SeqsUpTo([name : BuildNames, count : BuildCounts], MaxFreq) :
        \A i, j \in Positions(t) : t[i].name = t[j].name => i = j}

\* three names of base "garlic" that differ by their form, all above the
\* floor of a single, and a name of another base under it
ExampleTable ==
    << [name |-> <<"f","r","e","s","h"," ","g","a","r","l","i","c">>, count |-> 2 * SingleFloor],
       [name |-> <<"g","a","r","l","i","c">>, count |-> SingleFloor + 30],
       [name |-> <<"m","i","n","c","e","d"," ","g","a","r","l","i","c">>, count |-> SingleFloor + 10],
       [name |-> <<"s","a","l","t">>, count |-> 2 * AliasFloor] >>

\* the tables and --min-freq drawn, and the example with the default
BuildInputs ==
    (FreqTables \X MinFreqs) \cup {<<ExampleTable, DefaultMinFreq>>}

BuildStart ==
    /\ pc = "build_loop"
    /\ SlugIdle
    /\ ExpandIdle
    /\ ingredients = <<>>
    /\ cluster_keys = <<>>
    /\ \E input \in BuildInputs :
        /\ freq = input[1]
        /\ min_freq = input[2]
    /\ fi = 1
    /\ build_clusters = <<>>
    /\ filtered_low = 0
    /\ kept = 0
    /\ gi = 1
    /\ output_clusters = <<>>
    /\ synonym_clusters = <<>>
    /\ first_clusters = <<>>

InitBuild ==
    /\ BuildStart
    /\ ontology = <<>>
    /\ ontology_file = <<>>
    /\ slug_to_entry = <<>>
    /\ surface_to_slug = <<>>
    /\ synonym_table = <<>>
    /\ clusters = <<>>
    /\ ci = 0
    /\ matched_slug = <<>>
    /\ stats = <<>>
    /\ unmatched_clusters = <<>>
    /\ ontology_v2 = <<>>
    /\ run = 1

NextBuild == BuildGroup \/ BuildEmit \/ BuildWrite \/ BuildRerun

SpecBuild == InitBuild /\ [][NextBuild]_vars

\* the groups, whatever the order of keys and members
GroupSet(groups) ==
    {<<groups[i].key, Range(groups[i].members)>> : i \in Positions(groups)}

Keys(groups) == [i \in Positions(groups) |-> groups[i].key]

\* C10: on the frequency table in another order, with the same min_freq, the
\* grouping loop ends with the same set of cluster keys and, for each key,
\* the same set of members.
C10_GroupingOrderFree ==
    run = 2 /\ fi > Len(freq) => GroupSet(build_clusters) = GroupSet(first_clusters)

\* C10 witness: the second run has grouped the permuted table; the keys came
\* in another order than in the first run and a group has two members.
C10_Witness ==
    /\ run = 2
    /\ pc = "build_loop"
    /\ fi > Len(freq)
    /\ Keys(build_clusters) # Keys(first_clusters)
    /\ \E i \in Positions(build_clusters) : Len(build_clusters[i].members) >= 2

(***************************************************************************)
(* SpecPipeline: the Builder, then the Merger on the clusters it wrote     *)
(***************************************************************************)
PipelineSlugs ==
    { <<"g","a","r","l","i","c">>,
      <<"m","i","n","c","e","d","-","g","a","r","l","i","c">> }

\* a form the Builder's names hold in another case
PipelineForms == { <<"G","a","r","l","i","c"," ","M","i","n","c","e","d">> }

PipelineEntries ==
    [slug : PipelineSlugs,
     surfaceForms : SeqsUpTo(PipelineForms, MaxForms),
     confirmTokens : {<<>>},
     recipeCount : {<<>>},
     fdc : {<<"f">>},
     fdcCandidate : {<<>>}]

\* slugs pairwise distinct; the file sorted by slug
PipelineOntologies ==
    {ont \in SeqsUpTo(PipelineEntries, MaxEntries) :
        \A i, j \in Positions(ont) : i < j => StrLess(ont[i].slug, ont[j].slug)}

InitPipeline ==
    /\ BuildStart
    /\ ontology_file \in PipelineOntologies
    /\ ontology = <<>>
    /\ slug_to_entry = <<>>
    /\ surface_to_slug = <<>>
    /\ synonym_table = <<>>
    /\ clusters = <<>>
    /\ ci = 0
    /\ matched_slug = <<>>
    /\ stats = <<>>
    /\ unmatched_clusters = <<>>
    /\ ontology_v2 = <<>>
    /\ run = 1

\* the Merger's main up to the loop: the ontology and the clusters loaded
\* from the files, the indexes built
MergeLoad ==
    /\ pc = "build_done"
    /\ MergeLoaded(ontology_file)
    /\ clusters' = synonym_clusters.clusters
    /\ pc' = "merge_loop"
    /\ UNCHANGED <<ontology_file, ontology_v2, synonym_table, run,
                   slug_vars, expand_vars, build_vars>>

NextPipeline ==
    \/ BuildGroup
    \/ BuildEmit
    \/ BuildWrite
    \/ MergeLoad
    \/ MergeCluster
    \/ MergePostPass
    \/ MergeWrite

SpecPipeline == InitPipeline /\ [][NextPipeline]_vars

\* the group the cluster record was made of: its canonical is the group's
\* first member, and a name is in one group
GroupOf(cluster) ==
    build_clusters[CHOOSE i \in Positions(build_clusters) :
                        build_clusters[i].members[1].name = cluster.canonical]

MemberNames(group) == {group.members[i].name : i \in Positions(group.members)}

\* the entry the cluster of this step is merged into, after the step
MatchedEntry == ontology'[slug_to_entry[matched_slug'[1]]]

\* C7, as stated: on match every member of the cluster's group, the members
\* left out of the alias list included, is a surface form of the matched
\* entry, whatever the case.
C7_EveryMemberMerged ==
    [][AtCluster /\ Truthy(matched_slug') =>
        \A name \in MemberNames(GroupOf(clusters[ci])) :
            Lower(name) \in LowerForms(MatchedEntry.surfaceForms)]_vars

\* C7: on match the canonical and every alias of the cluster record is a
\* surface form of the matched entry, whatever the case; these are the
\* members of the group whose count reaches the alias floor, and the
\* canonical.
C7_EveryListedFormMerged ==
    [][AtCluster /\ Truthy(matched_slug') =>
        /\ LowerForms(AllForms(clusters[ci])) \subseteq
                LowerForms(MatchedEntry.surfaceForms)
        /\ \A i \in Positions(GroupOf(clusters[ci]).members) :
            LET m == GroupOf(clusters[ci]).members[i]
            IN  i = 1 \/ m.count >= AliasFloor =>
                    Lower(m.name) \in LowerForms(MatchedEntry.surfaceForms)]_vars

\* C7 witness: the one cluster, which has an alias, was matched, its
\* canonical and its alias were added to the entry, and a third member of its
\* group is under the alias floor.
C7_Witness ==
    /\ pc = "merge_done"
    /\ Len(clusters) = 1
    /\ stats.clusters_matched = 1
    /\ stats.surface_forms_added = 2
    /\ clusters[1].aliases # <<>>
    /\ \E i \in Positions(GroupOf(clusters[1]).members) :
            GroupOf(clusters[1]).members[i].count < AliasFloor

(***************************************************************************)
(* Properties of the emitted clusters                                      *)
(***************************************************************************)
\* the position of a name in the scan of freq.items()
FreqPos(name) == CHOOSE i \in Positions(freq) : freq[i].name = name

\* the group a name was put in
GroupHolding(name) ==
    build_clusters[CHOOSE i \in Positions(build_clusters) :
                        name \in MemberNames(build_clusters[i])]

\* C11: the canonical of every emitted cluster is a member of maximal count
\* of its group and, among the members of that count, the one the scan of the
\* input met first.
C11_CanonicalIsFirstMax ==
    \A k \in Positions(output_clusters) :
        LET c == output_clusters[k]
            g == GroupHolding(c.canonical)
        IN  /\ c.count = freq[FreqPos(c.canonical)].count
            /\ \A m \in Range(g.members) :
                /\ m.count <= c.count
                /\ m.count = c.count => FreqPos(c.canonical) <= FreqPos(m.name)

\* C11 witness: a group of three was emitted; the scan met a member of lower
\* count first, then the canonical, then a member of the canonical's count.
C11_Witness ==
    /\ pc = "build_done"
    /\ \E k \in Positions(output_clusters) :
        LET c == output_clusters[k]
            g == GroupHolding(c.canonical)
        IN  /\ Len(g.members) = 3
            /\ \E a, b \in Range(g.members) :
                /\ FreqPos(a.name) < FreqPos(c.canonical)
                /\ a.count < c.count
                /\ FreqPos(c.canonical) < FreqPos(b.name)
                /\ b.count = c.count

\* the sum of the counts the table gives to a set of names
RECURSIVE FreqSum(_)
FreqSum(names) ==
    IF names = {} THEN 0
    ELSE LET n == CHOOSE x \in names : TRUE
         IN  freq[FreqPos(n)].count + FreqSum(names \ {n})

\* C12: the aliases of every emitted cluster are exactly the members of its
\* group other than the canonical whose count is at least the alias floor,
\* each once and with its count, in descending order of count; totalUsage is
\* the sum of the counts of all the members of the group, those left out of
\* the aliases included.
C12_AliasesAndTotalUsage ==
    \A k \in Positions(output_clusters) :
        LET c == output_clusters[k]
            g == GroupHolding(c.canonical)
        IN  /\ {c.aliases[i].name : i \in Positions(c.aliases)} =
                  {m.name : m \in {x \in Range(g.members) :
                                      x.name # c.canonical /\ x.count >= AliasFloor}}
            /\ \A i, j \in Positions(c.aliases) :
                /\ c.aliases[i].name = c.aliases[j].name => i = j
                /\ i < j => c.aliases[i].count >= c.aliases[j].count
            /\ \A i \in Positions(c.aliases) :
                c.aliases[i].count = freq[FreqPos(c.aliases[i].name)].count
            /\ c.totalUsage = FreqSum(MemberNames(g))

\* C12 witness: the group of an emitted cluster has three members; one is
\* the canonical, one the only alias, and the third, under the alias floor,
\* is no alias and is counted in totalUsage.
C12_Witness ==
    /\ pc = "build_done"
    /\ \E k \in Positions(output_clusters) :
        LET c == output_clusters[k]
            g == GroupHolding(c.canonical)
        IN  /\ Len(g.members) = 3
            /\ Len(c.aliases) = 1
            /\ \E m \in Range(g.members) : m.count < AliasFloor
            /\ c.totalUsage = c.count + c.aliases[1].count + AliasFloor - 2

\* a cluster was emitted for the group
Emitted(g) ==
    \E k \in Positions(output_clusters) :
        output_clusters[k].canonical \in MemberNames(g)

\* the group keeps an alias after the filter (two members reach the alias
\* floor, one of them the canonical), or a member reaches the floor of a single
Emittable(g) ==
    \/ Cardinality({i \in Positions(g.members) : g.members[i].count >= AliasFloor}) >= 2
    \/ \E i \in Positions(g.members) : g.members[i].count >= SingleFloor

\* the names of the clusters: canonicals and aliases
OutputNames ==
    UNION {{output_clusters[k].canonical} \cup
           {output_clusters[k].aliases[i].name :
                i \in Positions(output_clusters[k].aliases)} :
           k \in Positions(output_clusters)}

\* the clusters of the example, whatever their order
ExampleClusters ==
    { [canonical |-> ExampleTable[1].name, count |-> ExampleTable[1].count,
       base |-> << <<"g","a","r","l","i","c">> >>, form |-> <<"f","r","e","s","h">>,
       aliases |-> <<>>, totalUsage |-> ExampleTable[1].count],
      [canonical |-> ExampleTable[2].name, count |-> ExampleTable[2].count,
       base |-> << <<"g","a","r","l","i","c">> >>, form |-> <<"b","a","s","e">>,
       aliases |-> <<>>, totalUsage |-> ExampleTable[2].count],
      [canonical |-> ExampleTable[3].name, count |-> ExampleTable[3].count,
       base |-> << <<"g","a","r","l","i","c">> >>, form |-> <<"m","i","n","c","e">>,
       aliases |-> <<>>, totalUsage |-> ExampleTable[3].count] }

\* C13: a group the output loop has gone through is emitted, once, if and only
\* if it keeps an alias after the filter or its canonical's count is at least
\* the floor of a single; an emitted cluster has a base token and a name
\* without base token is in no cluster; the example table gives exactly three
\* clusters without alias, of base "garlic" and forms fresh, base and mince,
\* and none for "salt".
C13_EmitRule ==
    /\ \A j \in Positions(build_clusters) :
        Emitted(build_clusters[j]) <=> (j < gi /\ Emittable(build_clusters[j]))
    /\ \A k, l \in Positions(output_clusters) :
        GroupHolding(output_clusters[k].canonical) =
            GroupHolding(output_clusters[l].canonical) => k = l
    /\ \A k \in Positions(output_clusters) : output_clusters[k].base # <<>>
    /\ \A i \in Positions(freq) :
        extract_base_and_form(freq[i].name).base = <<>> =>
            freq[i].name \notin OutputNames
    /\ pc = "build_done" /\ Range(freq) = Range(ExampleTable) =>
        /\ Range(output_clusters) = ExampleClusters
        /\ Len(output_clusters) = 3

\* C13 witness: the run on the example table is over.
C13_ExampleWitness ==
    /\ pc = "build_done"
    /\ run = 1
    /\ freq = ExampleTable
    /\ Len(build_clusters) = 4
    /\ Len(output_clusters) = 3

(***************************************************************************)
(* The surface-form index within one pass of the Merger                    *)
(***************************************************************************)
\* the loop has merged the cluster before position ci into an entry
JustMerged == pc = "merge_loop" /\ ci >= 2 /\ Truthy(matched_slug)

\* C14: right after a cluster is merged into an entry, the surface-form index
\* maps the lowercase of its canonical and of each of its aliases to the
\* entry's slug; and the next cluster, if its lowercased canonical is one of
\* these forms, is matched to the same entry and not routed to unmatched.
C14_LookupsSeeEarlierWrites ==
    [][JustMerged =>
        /\ \A f \in LowerForms(AllForms(clusters[ci - 1])) :
            f \in DOMAIN surface_to_slug /\ surface_to_slug[f] = matched_slug[1]
        /\ (ci <= Len(clusters)
            /\ Lower(clusters[ci].canonical) \in LowerForms(AllForms(clusters[ci - 1])))
           => /\ matched_slug' = matched_slug
              /\ stats'.clusters_matched = stats.clusters_matched + 1
              /\ stats'.clusters_unmatched = stats.clusters_unmatched
              /\ unmatched_clusters' = unmatched_clusters]_vars

\* C14 witness: the second cluster's canonical is an alias of the first; before
\* the pass neither the index held it nor was its slug an entry's; the first
\* cluster was merged and so was the second, into the same entry.
C14_Witness ==
    /\ pc = "merge_loop"
    /\ run = 1
    /\ ci = 3
    /\ stats.clusters_matched = 2
    /\ unmatched_clusters = <<>>
    /\ Lower(clusters[2].canonical) # Lower(clusters[1].canonical)
    /\ Lower(clusters[2].canonical) \in LowerForms(AllForms(clusters[1]))
    /\ Lower(clusters[2].canonical) \notin DOMAIN SurfaceIndex(ontology_file)
    /\ slugify(clusters[2].canonical) \notin DOMAIN slug_to_entry
    /\ \A i \in Positions(clusters[2].aliases) :
        Lower(clusters[2].aliases[i].name) \notin DOMAIN SurfaceIndex(ontology_file)
    /\ surface_to_slug[Lower(clusters[2].canonical)] = matched_slug[1]

====
